---- MODULE Spec2Model ----
(***************************************************************************)
(* Model of the video-assembly pipeline of src/main.py.                    *)
(*                                                                         *)
(*  - Spec          : one request through create_inspix_video (six-segment *)
(*                    timeline, final mux, verification, duration probe)   *)
(*                    and the response of generate_inspix_video, followed  *)
(*                    by download_video.                                   *)
(*  - SpecEscape    : escape_ffmpeg_text applied to bounded strings.       *)
(*  - SpecSlideshow : create_video_from_images (slideshow composer).       *)
(*  - SpecAutoFill  : the auto-fill step of create_inspix_video            *)
(*                    (auto_generate_prompt_preview, default style names). *)
(*  - SpecService   : the endpoints generate_inspix_video and create_video  *)
(*                    for concurrent requests, with download_video and     *)
(*                    cleanup_video.                                       *)
(*                                                                         *)
(* A text is a sequence of tokens; a token is one of the six characters    *)
(* that escape_ffmpeg_text treats specially, or a run of other characters. *)
(* Durations are counted in ticks of 1/12 second so that 7/N seconds is a  *)
(* whole number of ticks for every N in 1..MAX_IMAGES.                     *)
(***************************************************************************)
EXTENDS Integers, Sequences, FiniteSets, TLC

VARIABLES
    req,        \* arguments of create_inspix_video (fixed for the run)
    pc,         \* the engine invocation in flight, or "init"/"returned"/"responded"
    idx,        \* loop index i of the cell loop / the sub-clip loop
    dirs,       \* directories of the workspace that exist
    files,      \* files of the workspace that exist
    segments,   \* the list `segments`
    seglen,     \* encoded length (ticks) of each entry of `segments`
    manifest,   \* lines written to concat.txt
    prompt_text,\* local prompt_text after auto-fill
    style_names,\* local style_names after auto-fill
    calls,      \* log of completed engine invocations, in order
    output,     \* the file at output_path: [exists, size]
    result,     \* "pending", "success" (True) or "failure" (False)
    logged,     \* last logger.error message of the run
    http,       \* response of generate_inspix_video: [status, detail]
    served,     \* outcome of download_video for this request's file
    text,       \* SpecEscape: input of escape_ffmpeg_text
    escaped,    \* SpecEscape: its result
    epc,        \* SpecEscape: "input" or "done"
    sreq,       \* SpecSlideshow: arguments of create_video_from_images
    spc,        \* SpecSlideshow: invocation in flight
    sidx,       \* SpecSlideshow: loop index i
    scalls,     \* SpecSlideshow: log of completed engine invocations
    sout,       \* SpecSlideshow: the file at output_path: [exists, size]
    sresult,    \* SpecSlideshow: "pending", "success" or "failure"
    fillreq,    \* SpecAutoFill: result count, prompt_text and style_names given
    filled,     \* SpecAutoFill: caption, prompt_text and style_names after auto-fill
    fpc,        \* SpecAutoFill: "input" or "done"
    request,    \* SpecService: request of each slot: [endpoint, n]
    phase,      \* SpecService: where the handler of each slot is suspended
    fetched,    \* SpecService: image downloads completed by each slot
    request_id, \* SpecService: request_id of each slot (0: none yet)
    workspace_id,\* SpecService: id in the composer's segments_<id> directory (0: none)
    assets,     \* SpecService: optional assets of each slot: [logo, audio]
    composed,   \* SpecService: whether the slot's composer was called
    response,   \* SpecService: HTTP response of each slot: [status, detail]
    updirs,     \* SpecService: ids whose directory uploads/<id> exists
    upfiles,    \* SpecService: files under uploads/: [id, name, by]
    outfiles,   \* SpecService: files under outputs/: [prefix, id]
    issued,     \* SpecService: ids uuid4 has returned so far
    access,     \* SpecService: directories each slot has touched: [by, root, id]
    cleanups,   \* SpecService: video ids cleanup_video was called with
    downloads,  \* SpecService: outcome of the slot's last download_video
    muxes       \* SpecService: add_audio_to_video calls of each slot, in order

pipeVars  == <<req, pc, idx, dirs, files, segments, seglen, manifest,
               prompt_text, style_names, calls, output, result, logged,
               http, served>>
escVars   == <<text, escaped, epc>>
slideVars == <<sreq, spc, sidx, scalls, sout, sresult>>
fillVars  == <<fillreq, filled, fpc>>
svcVars   == <<request, phase, fetched, request_id, workspace_id, assets, composed,
               response, updirs, upfiles, outfiles, issued, access, cleanups,
               downloads, muxes>>
vars      == <<pipeVars, escVars, slideVars, fillVars, svcVars>>

----------------------------------------------------------------------------
(* Program constants *)

MAX_IMAGES == 4

MinOutputSize == 10000

MinClipSize == 1000

(* Bounds of the model *)

MaxLen == 3

MaxSlideDuration == 2

MaxCount == 6

NumRequests == 2

MaxIds == 4

----------------------------------------------------------------------------
(* Time *)

TicksPerSecond == 2 * 2 * 3

Seconds(n) == n * TicksPerSecond

RECURSIVE SumSeq(_)
SumSeq(s) == IF s = <<>> THEN 0 ELSE Head(s) + SumSeq(Tail(s))

Range(s) == { s[i] : i \in DOMAIN s }

----------------------------------------------------------------------------
(* escape_ffmpeg_text: six str.replace passes, backslash first *)

Specials == {"\\", "'", ":", "%", "[", "]"}

RECURSIVE ReplaceFrom(_, _, _)
ReplaceFrom(s, old, new) ==
    IF s = <<>> THEN <<>>
    ELSE (IF Head(s) = old THEN new ELSE <<Head(s)>>) \o ReplaceFrom(Tail(s), old, new)

\* str.replace(old, new): one left-to-right pass over the value of t
Replace(t, old, new) == CHOOSE r \in { ReplaceFrom(s, old, new) : s \in {t} } : TRUE

escape_backslash_last(t) ==
    LET t1 == Replace(t,  "'",  <<"\\", "'">>)
        t2 == Replace(t1, ":",  <<"\\", ":">>)
        t3 == Replace(t2, "%",  <<"\\", "%">>)
        t4 == Replace(t3, "[",  <<"\\", "[">>)
        t5 == Replace(t4, "]",  <<"\\", "]">>)
    IN  Replace(t5, "\\", <<"\\", "\\">>)

escape_ffmpeg_text(t) ==
    LET t1 == Replace(t,  "\\", <<"\\", "\\">>)
        t2 == Replace(t1, "'",  <<"\\", "'">>)
        t3 == Replace(t2, ":",  <<"\\", ":">>)
        t4 == Replace(t3, "%",  <<"\\", "%">>)
        t5 == Replace(t4, "[",  <<"\\", "[">>)
    IN  Replace(t5, "]",  <<"\\", "]">>)

\* a text as it is embedded in a drawtext=text='...' argument, with the text it
\* was made from
Overlay(src, arg) == [src |-> src, arg |-> arg]

\* text = escape_ffmpeg_text(...); f"drawtext=text='{text}':..."
Escaped(t) == Overlay(t, escape_ffmpeg_text(t))

\* f"drawtext=text='{text_content}':..."
Raw(t) == Overlay(t, t)

----------------------------------------------------------------------------
(* Auto-fill of optional fields *)

prompts ==
    << <<"Transform your photos with AI magic">>,
       <<"Unlock endless creative possibilities">>,
       <<"Professional edits in seconds">>,
       <<"Your photo, infinite styles">> >>

Min(a, b) == IF a < b THEN a ELSE b

prompt_by_count_wrapped(result_count) ==
    IF result_count > 0
    THEN prompts[((result_count - 1) % Len(prompts)) + 1]
    ELSE prompts[1]

\* prompts[...] is 0-based in the source, 1-based here
auto_generate_prompt_preview(result_count) ==
    IF result_count > 0
    THEN prompts[Min(result_count - 1, Len(prompts) - 1) + 1]
    ELSE prompts[1]

DefaultStyle(n) == <<"Style " \o ToString(n)>>

\* `if not prompt_text: prompt_text = auto_generate_prompt_preview(...)`
FillPrompt(p, n) == IF p = <<>> THEN auto_generate_prompt_preview(n) ELSE p

\* `if not style_names or len(style_names) < len(result_images): ...`
FillStyles(names, n) ==
    IF names = <<>> \/ Len(names) < n
    THEN [i \in 1..n |-> DefaultStyle(i)]
    ELSE names

----------------------------------------------------------------------------
(* Results showcase timing *)

total_duration == Seconds(7)

\* 7.0 / len(result_images); exact in ticks for 1..MAX_IMAGES images
duration_per_image(n) == total_duration \div n

transition_duration == TicksPerSecond \div 2

transitions == <<"fade", "slideleft", "circleopen", "fadeblack">>

\* offset of join i (0-based)
XfadeOffset(i, n) == (i + 1) * duration_per_image(n) - transition_duration

XfadeAlwaysFade(i) == transitions[1]

\* transition of join i (0-based)
XfadeTransition(i) == transitions[(i % Len(transitions)) + 1]

\* a cross-fade's output ends at its offset plus the length of the incoming clip
XfadeLen(offset, incoming) == offset + incoming

RECURSIVE XfadeChain(_, _, _)
XfadeChain(i, n, acc) ==
    IF i > n - 2 THEN acc
    ELSE XfadeChain(i + 1, n, XfadeLen(XfadeOffset(i, n), duration_per_image(n)))

\* length of segment4_results.mp4: a copy of the only sub-clip, or the joined chain
ShowcaseLen(n) ==
    IF n = 1 THEN duration_per_image(n)
    ELSE XfadeChain(0, n, duration_per_image(n))

\* f"Style\\: {style_name}" passed through escape_ffmpeg_text (i is 0-based)
ShowcaseLabel(names, i) ==
    LET style_name == IF i < Len(names) THEN names[i + 1] ELSE DefaultStyle(i + 1)
    IN  Escaped(<<"Style", "\\", ":", " ">> \o style_name)

ShowcaseCounter(i, n) == Escaped(<<ToString(i + 1) \o "/" \o ToString(n)>>)

----------------------------------------------------------------------------
(* Workspace: directories and files *)

File(d, n) == [dir |-> d, name |-> n]

Parent(d) == IF d \in {"grid_temp", "temp"} THEN "segments" ELSE "outputs"

UnderAnything(d, root) == TRUE

\* d is root or lies inside it
Under(d, root) == d = root \/ Parent(d) = root

Fs(ds, fs) == [dirs |-> ds, files |-> fs]

RmtreeNothing(root, fsys) == fsys

\* shutil.rmtree(root, ignore_errors=True)
Rmtree(root, fsys) ==
    [dirs  |-> { d \in fsys.dirs : ~Under(d, root) },
     files |-> { f \in fsys.files : ~Under(f.dir, root) }]

CellFile(i)   == File("grid_temp", "cell_" \o ToString(i) \o ".mp4")
ResultFile(i) == File("temp", "result_000" \o ToString(i) \o ".mp4")
ConcatFile    == File("segments", "concat.txt")

----------------------------------------------------------------------------
(* The fixed timeline of create_inspix_video *)

Builders == {"hook", "original", "tease", "showcase", "branding", "cta"}

NextBuilderTeaseFirst(b) ==
    CASE b = "hook"     -> "tease"
      [] b = "tease"    -> "original"
      [] b = "original" -> "showcase"
      [] b = "showcase" -> "branding"
      [] b = "branding" -> "cta"
      [] b = "cta"      -> "mux"

NextBuilderSwapped(b) ==
    CASE b = "hook"     -> "original"
      [] b = "original" -> "tease"
      [] b = "tease"    -> "branding"
      [] b = "branding" -> "showcase"
      [] b = "showcase" -> "cta"
      [] b = "cta"      -> "mux"

\* the statement order of the six builder calls and the final mux
NextBuilder(b) ==
    CASE b = "hook"     -> "original"
      [] b = "original" -> "tease"
      [] b = "tease"    -> "showcase"
      [] b = "showcase" -> "branding"
      [] b = "branding" -> "cta"
      [] b = "cta"      -> "mux"

SegmentFile(b) ==
    CASE b = "hook"     -> File("segments", "segment1_hook_grid.mp4")
      [] b = "original" -> File("segments", "segment2_original.mp4")
      [] b = "tease"    -> File("segments", "segment3_prompt.mp4")
      [] b = "showcase" -> File("segments", "segment4_results.mp4")
      [] b = "branding" -> File("segments", "segment5_branding.mp4")
      [] b = "cta"      -> File("segments", "segment6_cta.mp4")

\* length the builder's (last) invocation encodes
EncodedLen(b, n) ==
    CASE b = "hook"     -> Seconds(1)
      [] b = "original" -> Seconds(2)
      [] b = "tease"    -> Seconds(2)
      [] b = "showcase" -> ShowcaseLen(n)
      [] b = "branding" -> Seconds(2)
      [] b = "cta"      -> Seconds(1)

FailureMessage(b) ==
    CASE b = "hook"     -> "Failed to create hook grid segment"
      [] b = "original" -> "Failed to create original photo segment"
      [] b = "tease"    -> "Failed to create prompt tease segment"
      [] b = "showcase" -> "Failed to create results showcase segment"
      [] b = "branding" -> "Failed to create branding segment"
      [] b = "cta"      -> "Failed to create CTA segment"

GridImageClamped(i, n) == Min(i, n - 1)

\* grid_images[i] = result_images[i % len(result_images)]
GridImage(i, n) == i % n

\* first engine invocation of a stage
EntryPoint(stage) ==
    CASE stage = "hook"     -> "cell"
      [] stage = "showcase" -> "clip"
      [] OTHER              -> stage

\* temp_dir.mkdir(exist_ok=True) of the two multi-step builders
TempDirOf(stage) ==
    CASE stage = "hook"     -> {"grid_temp"}
      [] stage = "showcase" -> {"temp"}
      [] OTHER              -> {}

----------------------------------------------------------------------------
(* Engine invocations *)

Outcomes == {"ok", "fail", "timeout"}

ProbeOutcomes == {"ok", "nonzero", "unparsable", "timeout", "missing"}

Invocation(op, i, args, o) == [op |-> op, i |-> i, args |-> args, outcome |-> o]

OnlyTimeoutFails(o) == o = "timeout"

OnlyNonzeroExitFails(o) == o = "fail"

\* `result.returncode != 0`, or subprocess.run raised (TimeoutExpired)
InvocationFailed(o) == o # "ok"

AudioWheneverPathGiven(music) == IF music # "none" THEN "music" ELSE "silent"

\* `if music_path and music_path.exists():` ... else: anullsrc
AudioSource(music) == IF music = "present" THEN "music" ELSE "silent"

\* `if logo_path and logo_path.exists():`
LogoUsed(logo) == logo = "present"

Absent == [exists |-> FALSE, size |-> 0]

OutputSizes == {0, MinOutputSize - 1, MinOutputSize, MinOutputSize + 1}

OutputStates == {Absent} \cup { [exists |-> TRUE, size |-> s] : s \in OutputSizes }

VerifyExistsOnly(out) == out.exists

\* negation of `not output_path.exists() or output_path.stat().st_size < 10000`
VerifyOutput(out) == out.exists /\ ~(out.size < MinOutputSize)

----------------------------------------------------------------------------
(* Inputs of a request *)

Musics == {"none", "present", "missing"}

Logos == {"none", "present", "missing"}

\* <<>> stands for None and for "" (both are false in `if not prompt_text`)
PromptInputs == { <<>>, <<"A sunset", ":", " 100", "%", " real">> }

CtaInputs == { <<"Link in Bio">>, <<"[", "Tap", "]", " it", "'", "s free">> }

SuppliedStyles(k) == [i \in 1..k |-> <<"Moody", ":", ToString(i)>>]

Requests ==
    { [n |-> n, music |-> m, logo |-> l, prompt |-> p, cta |-> c,
       style_names |-> SuppliedStyles(k)] :
         n \in 1..MAX_IMAGES, m \in Musics, l \in Logos,
         p \in PromptInputs, c \in CtaInputs, k \in 0..MAX_IMAGES }

EscIdle ==
    /\ text = <<>>
    /\ escaped = <<>>
    /\ epc = "idle"

FillIdle ==
    /\ fillreq = <<>>
    /\ filled = <<>>
    /\ fpc = "idle"

SvcIdle ==
    /\ request = <<>>
    /\ phase = <<>>
    /\ fetched = <<>>
    /\ request_id = <<>>
    /\ workspace_id = <<>>
    /\ assets = <<>>
    /\ composed = <<>>
    /\ response = <<>>
    /\ updirs = {}
    /\ upfiles = {}
    /\ outfiles = {}
    /\ issued = {}
    /\ access = {}
    /\ cleanups = {}
    /\ downloads = <<>>
    /\ muxes = <<>>

SlideIdle ==
    /\ sreq = <<>>
    /\ spc = "idle"
    /\ sidx = 0
    /\ scalls = <<>>
    /\ sout = Absent
    /\ sresult = "pending"

PipeIdle ==
    /\ req = <<>>
    /\ pc = "idle"
    /\ idx = 0
    /\ dirs = {}
    /\ files = {}
    /\ segments = <<>>
    /\ seglen = <<>>
    /\ manifest = <<>>
    /\ prompt_text = <<>>
    /\ style_names = <<>>
    /\ calls = <<>>
    /\ output = Absent
    /\ result = "pending"
    /\ logged = ""
    /\ http = [status |-> 0, detail |-> ""]
    /\ served = "none"

\* a validated request whose assets are downloaded; nothing of it is on disk
\* under outputs/ yet (output_path carries a fresh uuid)
Init ==
    /\ req \in { r \in Requests : Len(r.style_names) <= r.n }
    /\ pc = "init"
    /\ idx = 0
    /\ dirs = {}
    /\ files = {}
    /\ segments = <<>>
    /\ seglen = <<>>
    /\ manifest = <<>>
    /\ prompt_text = req.prompt
    /\ style_names = req.style_names
    /\ calls = <<>>
    /\ output = Absent
    /\ result = "pending"
    /\ logged = ""
    /\ http = [status |-> 0, detail |-> ""]
    /\ served = "none"
    /\ EscIdle
    /\ SlideIdle
    /\ FillIdle
    /\ SvcIdle

----------------------------------------------------------------------------
(* create_inspix_video *)

Log(op, i, args, o) == calls' = Append(calls, Invocation(op, i, args, o))

\* leave create_inspix_video: the `finally` removes the workspace, then the
\* value is returned
Return(res, msg, fsys) ==
    LET after == Rmtree("segments", fsys)
    IN  /\ pc' = "returned"
        /\ result' = res
        /\ logged' = msg
        /\ dirs' = after.dirs
        /\ files' = after.files

\* start the stage after builder b, which returned True leaving fsys
Proceed(b, fsys) ==
    LET nxt  == NextBuilder(b)
        segs == Append(segments, SegmentFile(b))
    IN  /\ segments' = segs
        /\ seglen' = Append(seglen, EncodedLen(b, req.n))
        /\ pc' = EntryPoint(nxt)
        /\ idx' = 0
        /\ dirs' = fsys.dirs \cup TempDirOf(nxt)
        /\ files' = fsys.files \cup (IF nxt = "mux" THEN {ConcatFile} ELSE {})
        /\ manifest' = IF nxt = "mux" THEN segs ELSE manifest
        /\ UNCHANGED <<result, logged>>

\* builder b returned False (or raised inside its own try): the composer raises,
\* cleans up and returns False
Abandon(b, fsys) ==
    /\ Return("failure", FailureMessage(b), fsys)
    /\ UNCHANGED <<segments, seglen, manifest, idx>>

\* entry: workspace creation, auto-fill, first cell of the hook grid issued
Call ==
    /\ pc = "init"
    /\ \E mkdir_ok \in BOOLEAN :
         IF mkdir_ok
         THEN /\ prompt_text' = FillPrompt(req.prompt, req.n)
              /\ style_names' = FillStyles(req.style_names, req.n)
              /\ dirs' = {"segments"} \cup TempDirOf("hook")
              /\ pc' = EntryPoint("hook")
              /\ UNCHANGED <<result, logged>>
         ELSE /\ pc' = "returned"
              /\ result' = "failure"
              /\ logged' = "Error creating inspix video"
              /\ UNCHANGED <<prompt_text, style_names, dirs>>
    /\ UNCHANGED <<req, idx, files, segments, seglen, manifest, calls, output,
                   http, served, escVars, slideVars, fillVars, svcVars>>

\* create_hook_grid: cell i of the 2x2 grid
CellDone ==
    /\ pc = "cell"
    /\ \E o \in Outcomes :
         /\ Log("cell", idx, [img |-> GridImage(idx, req.n), t |-> Seconds(1)], o)
         /\ IF InvocationFailed(o)
            THEN Abandon("hook", Rmtree("grid_temp", Fs(dirs, files)))
            ELSE /\ files' = files \cup {CellFile(idx)}
                 /\ IF idx < 3
                    THEN /\ idx' = idx + 1
                         /\ pc' = "cell"
                    ELSE /\ idx' = idx
                         /\ pc' = "stack"
                 /\ UNCHANGED <<dirs, segments, seglen, manifest, result, logged>>
    /\ UNCHANGED <<req, prompt_text, style_names, output, http, served,
                   escVars, slideVars, fillVars, svcVars>>

\* create_hook_grid: hstack/vstack of the four cells
StackDone ==
    /\ pc = "stack"
    /\ \E o \in Outcomes :
         /\ Log("stack", 0,
                [inputs |-> { f \in files : f.dir = "grid_temp" }, t |-> Seconds(1)], o)
         /\ IF InvocationFailed(o)
            THEN Abandon("hook", Rmtree("grid_temp", Fs(dirs, files)))
            ELSE Proceed("hook",
                   Rmtree("grid_temp",
                     Fs(dirs, (files \ { CellFile(i) : i \in 0..3 })
                                \cup {SegmentFile("hook")})))
    /\ UNCHANGED <<req, prompt_text, style_names, output, http, served,
                   escVars, slideVars, fillVars, svcVars>>

\* a builder that is one engine invocation
SingleInvocation(b, args) ==
    /\ pc = b
    /\ \E o \in Outcomes :
         /\ Log(b, 0, args, o)
         /\ IF InvocationFailed(o)
            THEN Abandon(b, Fs(dirs, files))
            ELSE Proceed(b, Fs(dirs, files \cup {SegmentFile(b)}))
    /\ UNCHANGED <<req, prompt_text, style_names, output, http, served,
                   escVars, slideVars, fillVars, svcVars>>

OriginalDone ==
    SingleInvocation("original",
        [t |-> Seconds(2), overlays |-> <<Escaped(<<"This Photo +">>)>>])

TeaseDone ==
    SingleInvocation("tease",
        [t |-> Seconds(2),
         overlays |-> <<Escaped(<<"+ inspix Prompt =">>), Escaped(prompt_text)>>])

BrandingDone ==
    SingleInvocation("branding",
        [t |-> Seconds(2), img |-> req.n - 1, logo |-> LogoUsed(req.logo),
         overlays |-> <<Escaped(<<"500+ Prompts Ready">>)>>])

CtaDone ==
    SingleInvocation("cta",
        [t |-> Seconds(1), img |-> req.n - 1, logo |-> LogoUsed(req.logo),
         overlays |-> <<Escaped(req.cta)>>])

\* create_results_showcase: sub-clip i
ClipDone ==
    /\ pc = "clip"
    /\ \E o \in Outcomes :
         /\ Log("clip", idx,
                [img |-> idx, t |-> duration_per_image(req.n),
                 overlays |-> <<ShowcaseLabel(style_names, idx),
                                ShowcaseCounter(idx, req.n)>>], o)
         /\ IF InvocationFailed(o)
            THEN Abandon("showcase", Rmtree("temp", Fs(dirs, files)))
            ELSE IF idx < req.n - 1
            THEN /\ files' = files \cup {ResultFile(idx)}
                 /\ idx' = idx + 1
                 /\ pc' = "clip"
                 /\ UNCHANGED <<dirs, segments, seglen, manifest, result, logged>>
            ELSE IF req.n = 1
            THEN \* shutil.copy(temp_videos[0], output_path)
                 Proceed("showcase",
                   Rmtree("temp",
                     Fs(dirs, files \cup {ResultFile(idx), SegmentFile("showcase")})))
            ELSE /\ files' = files \cup {ResultFile(idx)}
                 /\ idx' = idx
                 /\ pc' = "join"
                 /\ UNCHANGED <<dirs, segments, seglen, manifest, result, logged>>
    /\ UNCHANGED <<req, prompt_text, style_names, output, http, served,
                   escVars, slideVars, fillVars, svcVars>>

\* create_results_showcase: the xfade chain over all sub-clips
JoinDone ==
    /\ pc = "join"
    /\ \E o \in Outcomes :
         /\ Log("join", 0,
                [inputs      |-> { f \in files : f.dir = "temp" },
                 transitions |-> [i \in 1..(req.n - 1) |-> XfadeTransition(i - 1)],
                 offsets     |-> [i \in 1..(req.n - 1) |-> XfadeOffset(i - 1, req.n)]], o)
         /\ IF InvocationFailed(o)
            THEN Abandon("showcase", Rmtree("temp", Fs(dirs, files)))
            ELSE Proceed("showcase",
                   Rmtree("temp",
                     Fs(dirs, (files \ { ResultFile(i) : i \in 0..(req.n - 1) })
                                \cup {SegmentFile("showcase")})))
    /\ UNCHANGED <<req, prompt_text, style_names, output, http, served,
                   escVars, slideVars, fillVars, svcVars>>

\* the final concat + audio invocation, segment deletion and output verification
MuxDone ==
    /\ pc = "mux"
    /\ \E o \in Outcomes, out \in OutputStates :
         /\ Log("mux", 0,
                [manifest |-> manifest,
                 audio    |-> AudioSource(req.music),
                 loop     |-> AudioSource(req.music) = "music",  \* -stream_loop -1
                 shortest |-> TRUE], o)                           \* -shortest
         /\ output' = out
         /\ IF InvocationFailed(o)
            THEN Return("failure",
                        IF o = "fail" THEN "Final concatenation failed"
                                      ELSE "Error creating inspix video",
                        Fs(dirs, files))
            ELSE LET kept == files \ Range(segments)
                 IN  IF VerifyOutput(out)
                     THEN /\ pc' = "probe"
                          /\ files' = kept
                          /\ UNCHANGED <<dirs, result, logged>>
                     ELSE Return("failure", "Output video file is missing or too small",
                                 Fs(dirs, kept))
    /\ UNCHANGED <<req, idx, segments, seglen, manifest, prompt_text, style_names,
                   http, served, escVars, slideVars, fillVars, svcVars>>

\* ffprobe on the output; subprocess.run raises on a timeout or a missing binary
ProbeDone ==
    /\ pc = "probe"
    /\ \E o \in ProbeOutcomes :
         /\ Log("probe", 0, [t |-> 0], o)
         /\ IF o \in {"timeout", "missing"}
            THEN Return("failure", "Error creating inspix video", Fs(dirs, files))
            ELSE Return("success", logged, Fs(dirs, files))
    /\ UNCHANGED <<req, idx, segments, seglen, manifest, prompt_text, style_names,
                   output, http, served, escVars, slideVars, fillVars, svcVars>>

----------------------------------------------------------------------------
(* generate_inspix_video (after the call) and download_video *)

Respond ==
    /\ pc = "returned"
    /\ pc' = "responded"
    /\ http' = IF result = "failure"
               THEN [status |-> 500, detail |-> "Failed to generate video"]
               ELSE IF ~output.exists
               THEN [status |-> 500, detail |-> "Video file was not created"]
               ELSE [status |-> 200,
                     detail |-> "Inspix video created successfully (low memory mode)"]
    /\ UNCHANGED <<req, idx, dirs, files, segments, seglen, manifest, prompt_text,
                   style_names, calls, output, result, logged, served,
                   escVars, slideVars, fillVars, svcVars>>

Download ==
    /\ pc = "responded"
    /\ served = "none"
    /\ served' = IF output.exists THEN "file" ELSE "404"
    /\ UNCHANGED <<req, pc, idx, dirs, files, segments, seglen, manifest, prompt_text,
                   style_names, calls, output, result, logged, http,
                   escVars, slideVars, fillVars, svcVars>>

Next ==
    \/ Call
    \/ CellDone
    \/ StackDone
    \/ OriginalDone
    \/ TeaseDone
    \/ ClipDone
    \/ JoinDone
    \/ BrandingDone
    \/ CtaDone
    \/ MuxDone
    \/ ProbeDone
    \/ Respond
    \/ Download

Spec == Init /\ [][Next]_vars

\* every subprocess.run of the run is given timeout=..., and the statements
\* between two invocations are straight-line code: a step that is possible is
\* eventually taken
SpecLive == Init /\ [][Next]_vars /\ WF_vars(Next)

\* position of the statement at pc in the body of create_inspix_video
PcRank(p) ==
    CASE p = "init"                  -> 0
      [] p \in {"cell", "stack"}     -> 1
      [] p = "original"              -> 2
      [] p = "tease"                 -> 3
      [] p \in {"clip", "join"}      -> 4
      [] p = "branding"              -> 5
      [] p = "cta"                   -> 6
      [] p = "mux"                   -> 7
      [] p = "probe"                 -> 8
      [] p \in {"returned", "responded"} -> 9

----------------------------------------------------------------------------
(* Properties of create_inspix_video *)

Returned == pc \in {"returned", "responded"}

LastCall == calls[Len(calls)]

MuxCalls == { k \in DOMAIN calls : calls[k].op = "mux" }

\* the six segment files in template order, written out
ExpectedManifest ==
    << File("segments", "segment1_hook_grid.mp4"),
       File("segments", "segment2_original.mp4"),
       File("segments", "segment3_prompt.mp4"),
       File("segments", "segment4_results.mp4"),
       File("segments", "segment5_branding.mp4"),
       File("segments", "segment6_cta.mp4") >>

\* position of an invocation's stage in the template
StageRank(op) ==
    CASE op \in {"cell", "stack"} -> 1
      [] op = "original"          -> 2
      [] op = "tease"             -> 3
      [] op \in {"clip", "join"}  -> 4
      [] op = "branding"          -> 5
      [] op = "cta"               -> 6
      [] op = "mux"               -> 7
      [] op = "probe"             -> 8

\* C1 as stated: success is returned only for an output file that exists and is
\* larger than the 10000-byte threshold.
C1_SuccessOnlyAboveThreshold ==
    result = "success" => (output.exists /\ output.size > MinOutputSize)

\* C1 (amended): success is returned only for an output file that exists and has
\* at least 10000 bytes; a run that returns with the file missing or smaller than
\* 10000 bytes returns failure.
C1_SuccessOnlyAtLeastThreshold ==
    /\ result = "success" => (output.exists /\ output.size >= MinOutputSize)
    /\ (Returned /\ (~output.exists \/ output.size < MinOutputSize))
          => result = "failure"

C1_Witness ==
    /\ result = "success"
    /\ output.exists
    /\ output.size = MinOutputSize

\* C2: once create_inspix_video has returned, with any outcome, the segments
\* workspace and every file in it (segments, grid cells, showcase sub-clips, the
\* concat manifest) are gone.
C2_WorkspaceGoneOnReturn ==
    Returned => (dirs = {} /\ files = {})

C2_Witness ==
    /\ pc = "returned"
    /\ result = "failure"
    /\ calls # <<>>
    /\ LastCall.op = "join"
    /\ Len(segments) = 3

\* C3: a run that ends in failure leaves no file at the output path, so the
\* download endpoint serves a file only for a successful run.
C3_NoOutputLeftOnFailure ==
    /\ result = "failure" => ~output.exists
    /\ served = "file" => result = "success"

\* C4: invocations follow the template order hook, original, tease, showcase,
\* branding, call-to-action, mux; each starts only after every earlier one
\* succeeded; no stage is skipped or repeated; and the manifest handed to the
\* mux is exactly the six segments in that order.
C4_TemplateOrder ==
    /\ \A k \in DOMAIN calls :
         /\ k = 1 => StageRank(calls[k].op) = 1
         /\ k > 1 =>
              /\ calls[k - 1].outcome = "ok"
              /\ \/ StageRank(calls[k].op) = StageRank(calls[k - 1].op) + 1
                 \/ <<calls[k - 1].op, calls[k].op>> \in
                      { <<"cell", "cell">>, <<"cell", "stack">>,
                        <<"clip", "clip">>, <<"clip", "join">> }
         /\ calls[k].op = "mux" => calls[k].args.manifest = ExpectedManifest
    /\ pc = "mux" => (manifest = ExpectedManifest /\ segments = ExpectedManifest)

C4_Witness ==
    /\ MuxCalls # {}
    /\ LastCall.op = "mux"
    /\ LastCall.args.manifest = ExpectedManifest

\* C5: nothing is invoked after a failed invocation (no retry, no later builder,
\* no mux), and the run whose last builder or mux invocation failed has returned
\* failure with the workspace removed.
C5_FirstFailureAborts ==
    /\ \A k \in 1..(Len(calls) - 1) : calls[k].outcome = "ok"
    /\ (calls # <<>> /\ LastCall.op # "probe" /\ LastCall.outcome # "ok")
          => (Returned /\ result = "failure" /\ dirs = {} /\ files = {})

C5_Witness ==
    /\ calls # <<>>
    /\ LastCall.op = "stack"
    /\ LastCall.outcome = "timeout"
    /\ pc = "returned"

\* the stage whose failure ended the run: that of the failed invocation, or the
\* output verification when the mux itself succeeded
FailedStage ==
    IF LastCall.outcome = "ok" THEN "verification"
    ELSE CASE LastCall.op \in {"cell", "stack"} -> "hook"
           [] LastCall.op \in {"clip", "join"}  -> "showcase"
           [] OTHER                             -> LastCall.op

\* the stage a failure description names, "none" when it names no stage
StageNamed(detail) ==
    IF \E b \in Builders : detail = FailureMessage(b)
    THEN CHOOSE b \in Builders : detail = FailureMessage(b)
    ELSE CASE detail = "Final concatenation failed" -> "mux"
           [] detail = "Output video file is missing or too small" -> "verification"
           [] OTHER -> "none"

\* C6: when a builder, the mux or the output verification failed, the error the
\* endpoint returns to the client names the stage that failed.
C6_FailureNamesStage ==
    (pc = "responded" /\ result = "failure" /\ calls # <<>> /\ LastCall.op # "probe")
        => StageNamed(http.detail) = FailedStage

\* C7: when the mux is invoked the six encoded segments last 15 seconds in all,
\* the showcase exactly 7 of them.
C7_SegmentsSumToFifteen ==
    pc = "mux" => (SumSeq(seglen) = Seconds(15) /\ seglen[4] = Seconds(7))

\* C8: a run issues at most one mux invocation, exactly one once it is past the
\* mux; that invocation carries the music track (looped, cut at the video's end)
\* when a music path was supplied and its file exists, and the generated silent
\* track otherwise; a successful run has a successful mux with an audio source.
C8_OneMuxOneAudio ==
    /\ Cardinality(MuxCalls) <= 1
    /\ (pc = "probe" \/ result = "success") => Cardinality(MuxCalls) = 1
    /\ \A k \in MuxCalls :
         /\ req.music = "present" =>
              (calls[k].args.audio = "music" /\ calls[k].args.loop)
         /\ req.music \in {"none", "missing"} =>
              (calls[k].args.audio = "silent" /\ ~calls[k].args.loop)
         /\ calls[k].args.shortest
    /\ result = "success" =>
         \E k \in MuxCalls :
            /\ calls[k].outcome = "ok"
            /\ calls[k].args.audio \in {"music", "silent"}

C8_Witness ==
    /\ result = "success"
    /\ req.music = "missing"
    /\ MuxCalls # {}

\* C12: an engine invocation that timed out (a grid cell, the grid stack, a
\* single-invocation builder, a showcase sub-clip or join, the mux) is the last
\* invocation of the run, and the run has returned failure with the workspace,
\* and every segment encoded before the timeout, removed.
C12_TimeoutAborts ==
    \A k \in DOMAIN calls :
        (calls[k].outcome = "timeout" /\ calls[k].op # "probe") =>
            /\ k = Len(calls)
            /\ Returned
            /\ result = "failure"
            /\ dirs = {}
            /\ files = {}

C12_Witness ==
    /\ calls # <<>>
    /\ LastCall.op = "mux"
    /\ LastCall.outcome = "timeout"
    /\ Len(segments) = 6
    /\ pc = "returned"

\* C13: once the mux succeeded and the output passed the existence and size
\* check, the run returns success whatever the duration probe did (non-zero
\* exit, unparsable output, timeout, missing binary).
C13_ProbeFailureHarmless ==
    (Returned /\ calls # <<>> /\ LastCall.op = "probe") => result = "success"

CallsOf(op) == { k \in DOMAIN calls : calls[k].op = op }

HookDone == pc \notin {"init", "cell", "stack"}

\* C21: create_hook_grid encodes cells 0..3 in order, cell i from result image
\* i mod N; the stack is invoked only after four successful cells and reads the
\* four cell clips, which all exist; and once the builder has returned, with
\* success or failure, no cell clip and no grid temp directory is left.
C21_HookGridCells ==
    /\ Cardinality(CallsOf("cell")) <= 4
    /\ \A k \in CallsOf("cell") :
         /\ calls[k].i = k - 1
         /\ calls[k].args.img = (k - 1) % req.n
         /\ calls[k].args.img \in 0..(req.n - 1)
    /\ \A k \in CallsOf("stack") :
         /\ k = 5
         /\ \A j \in 1..4 : calls[j].op = "cell" /\ calls[j].outcome = "ok"
         /\ calls[k].args.inputs = { CellFile(i) : i \in 0..3 }
    /\ pc = "stack" => \A i \in 0..3 : CellFile(i) \in files
    /\ HookDone =>
         /\ "grid_temp" \notin dirs
         /\ \A f \in files : f.dir # "grid_temp"
         /\ (CallsOf("stack") = {}) => (Returned /\ result = "failure")

C21_Witness ==
    /\ req.n = 3
    /\ pc = "original"
    /\ CallsOf("stack") = {5}
    /\ calls[4].args.img = 0
    /\ SegmentFile("hook") \in files

ShowcaseDone == pc \in {"branding", "cta", "mux", "probe"} \/ result = "success"

\* C22: create_results_showcase encodes sub-clips 0..N-1 in order, each of
\* 7/N seconds and labelled "i/N"; for N > 1 one join follows the N successful
\* sub-clips, with N-1 transitions of which the i-th is entry i mod 4 of fade,
\* slideleft, circleopen, fadeblack; for N = 1 there is no join.
C22_ShowcaseClipsAndJoins ==
    /\ Cardinality(CallsOf("clip")) <= req.n
    /\ \A k \in CallsOf("clip") :
         /\ k - 1 \in CallsOf("clip") \/ calls[k].i = 0
         /\ k - 1 \in CallsOf("clip") => calls[k].i = calls[k - 1].i + 1
         /\ calls[k].args.t * req.n = Seconds(7)
         /\ req.n = 4 => 4 * calls[k].args.t = 7 * TicksPerSecond
         /\ calls[k].args.overlays[2].src
               = <<ToString(calls[k].i + 1) \o "/" \o ToString(req.n)>>
    /\ \A k \in CallsOf("join") :
         /\ req.n > 1
         /\ \A j \in 1..req.n :
              /\ calls[k - j].op = "clip"
              /\ calls[k - j].outcome = "ok"
         /\ Len(calls[k].args.transitions) = req.n - 1
         /\ \A i \in 0..(req.n - 2) :
              calls[k].args.transitions[i + 1]
                 = <<"fade", "slideleft", "circleopen", "fadeblack">>[(i % 4) + 1]
    /\ Cardinality(CallsOf("join")) <= 1
    /\ req.n = 1 => CallsOf("join") = {}
    /\ ShowcaseDone =>
         /\ Cardinality(CallsOf("clip")) = req.n
         /\ req.n > 1 => Cardinality(CallsOf("join")) = 1

C22_Witness ==
    /\ req.n = 4
    /\ pc = "branding"
    /\ \E k \in CallsOf("join") :
         calls[k].args.transitions = <<"fade", "slideleft", "circleopen">>

\* length of the first input of join i (1-based position in `offsets`): the
\* first sub-clip, or the output of the previous join
FirstInputLen(offsets, i, n) ==
    IF i = 1 THEN duration_per_image(n)
    ELSE XfadeLen(offsets[i - 1], duration_per_image(n))

\* C23: in the join of the showcase every cross-fade ends -- offset plus the
\* 0.5-second transition -- no later than the end of its first input, the clip
\* accumulated from the previous joins.
C23_TransitionInsideFirstInput ==
    \A k \in CallsOf("join") :
        \A i \in DOMAIN calls[k].args.offsets :
            calls[k].args.offsets[i] + transition_duration
                <= FirstInputLen(calls[k].args.offsets, i, req.n)

\* C28: every segment built so far exists until the mux has completed -- all six
\* manifest entries exist when the mux is invoked -- and segments are deleted
\* only after the mux returned (explicitly after a success, with the workspace
\* after a failure).
C28_SegmentsKeptUntilMuxed ==
    /\ pc \notin {"probe", "returned", "responded"} =>
         \A j \in DOMAIN segments : segments[j] \in files
    /\ pc = "mux" =>
         /\ Len(manifest) = 6
         /\ \A j \in 1..6 : manifest[j] \in files
    /\ \A k \in CallsOf("mux") :
         \A j \in 1..(k - 1) : calls[j].outcome = "ok"
    /\ pc = "probe" =>
         /\ LastCall.op = "mux"
         /\ LastCall.outcome = "ok"
         /\ \A j \in DOMAIN segments : segments[j] \notin files

C28_Witness ==
    /\ pc = "probe"
    /\ Len(segments) = 6
    /\ "segments" \in dirs
    /\ files = {ConcatFile}

----------------------------------------------------------------------------
(* escape_ffmpeg_text on bounded strings *)

Alphabet == Specials \cup {"a"}

Texts(n) == UNION { [1..k -> Alphabet] : k \in 0..n }

InitEscape ==
    /\ text \in Texts(MaxLen)
    /\ escaped = <<>>
    /\ epc = "input"
    /\ PipeIdle
    /\ SlideIdle
    /\ FillIdle
    /\ SvcIdle

Escape ==
    /\ epc = "input"
    /\ escaped' = escape_ffmpeg_text(text)
    /\ epc' = "done"
    /\ UNCHANGED <<text, pipeVars, slideVars, fillVars, svcVars>>

NextEscape == Escape

SpecEscape == InitEscape /\ [][NextEscape]_vars

\* every special character prefixed by one backslash, the rest unchanged
RECURSIVE PrefixEach(_)
PrefixEach(s) ==
    IF s = <<>> THEN <<>>
    ELSE (IF Head(s) \in Specials THEN <<"\\", Head(s)>> ELSE <<Head(s)>>)
         \o PrefixEach(Tail(s))

\* remove the backslash in front of each escaped character
RECURSIVE Unescape(_)
Unescape(s) ==
    IF s = <<>> THEN <<>>
    ELSE IF Head(s) = "\\" /\ Len(s) >= 2
         THEN <<s[2]>> \o Unescape(Tail(Tail(s)))
         ELSE <<Head(s)>> \o Unescape(Tail(s))

\* C10: escape_ffmpeg_text puts exactly one backslash in front of each special
\* character and changes nothing else, and removing one backslash before each
\* escaped character gives the input back.
C10_EscapeRoundTrip ==
    epc = "done" =>
        /\ escaped = PrefixEach(text)
        /\ Unescape(escaped) = text

C10_Witness ==
    /\ epc = "done"
    /\ text = <<"a", "\\", ":">>
    /\ escaped = <<"a", "\\", "\\", "\\", ":">>

----------------------------------------------------------------------------
(* The auto-fill step of create_inspix_video on bounded inputs *)

Max(a, b) == IF a > b THEN a ELSE b

AutoFillInputs ==
    [result_count : (0 - MaxCount)..MaxCount,
     prompt_text  : PromptInputs,
     style_names  : { SuppliedStyles(k) : k \in 0..MAX_IMAGES }]

InitAutoFill ==
    /\ fillreq \in AutoFillInputs
    /\ filled = <<>>
    /\ fpc = "input"
    /\ PipeIdle
    /\ EscIdle
    /\ SlideIdle
    /\ SvcIdle

\* auto_generate_prompt_preview(result_count), and the two `if not ...` fills
AutoFill ==
    /\ fpc = "input"
    /\ filled' =
         [caption     |-> auto_generate_prompt_preview(fillreq.result_count),
          prompt_text |-> IF fillreq.prompt_text = <<>>
                          THEN auto_generate_prompt_preview(fillreq.result_count)
                          ELSE fillreq.prompt_text,
          style_names |-> FillStyles(fillreq.style_names,
                                     Max(fillreq.result_count, 0))]
    /\ fpc' = "done"
    /\ UNCHANGED <<fillreq, pipeVars, escVars, slideVars, svcVars>>

NextAutoFill == AutoFill

SpecAutoFill == InitAutoFill /\ [][NextAutoFill]_vars

\* C15: the auto-generated caption is the entry of the four-entry prompt list at
\* index min(result_count - 1, 3) (0-based): the first entry for a count of 1,
\* the last for every count of 4 or more, the first for a count of 0 or less;
\* the index is always inside the list; and it is the caption used when no
\* prompt text was supplied.
C15_CaptionIndexClamped ==
    fpc = "done" =>
        LET c == fillreq.result_count
            index == IF c <= 0 THEN 0 ELSE Min(c - 1, 3)
        IN  /\ Len(prompts) = 4
            /\ index \in 0..(Len(prompts) - 1)
            /\ filled.caption = prompts[index + 1]
            /\ c = 1 => filled.caption = prompts[1]
            /\ c >= 4 => filled.caption = prompts[4]
            /\ c <= 0 => filled.caption = prompts[1]
            /\ fillreq.prompt_text = <<>> => filled.prompt_text = filled.caption

C15_Witness ==
    /\ fpc = "done"
    /\ fillreq.result_count = 5
    /\ fillreq.prompt_text = <<>>
    /\ filled.prompt_text = <<"Your photo, infinite styles">>

----------------------------------------------------------------------------
(* create_video_from_images: the slideshow composer *)

\* <<>> stands for None and for "" (both are false in `if text_content:`)
SlideTexts == { <<>>, <<"Summer sale">>, <<"it", "'", "s 50", "%", " off">> }

SlideSizes == {0, MinClipSize - 1, MinClipSize}

SlideFileStates == {Absent} \cup { [exists |-> TRUE, size |-> z] : z \in SlideSizes }

SlideRequests ==
    { [n |-> n, duration_per_image |-> Seconds(d), transition_duration |-> Seconds(t),
       text_content |-> a, second_text_content |-> b, images_exist |-> e] :
         n \in 1..MAX_IMAGES, d \in 1..MaxSlideDuration, t \in 1..MaxSlideDuration,
         a \in SlideTexts, b \in SlideTexts, e \in BOOLEAN }

\* negation of `not path.exists() or path.stat().st_size < 1000`
SlideFileOk(f) == f.exists /\ ~(f.size < MinClipSize)

SlideClipDurationUniform(i, r) == r.duration_per_image

SlideTotalDurationUntrimmed(r) == r.n * r.duration_per_image + r.transition_duration

\* total_duration, the expected length the composer logs before encoding
SlideTotalDuration(r) ==
    IF r.n = 1 THEN r.duration_per_image + r.transition_duration
    ELSE r.duration_per_image
           + (r.n - 1) * (r.duration_per_image - r.transition_duration)
           + r.transition_duration

\* fade=t=out:st={duration_per_image - transition_duration}:d={transition_duration}
SlideFadeOut(r) ==
    [st |-> r.duration_per_image - r.transition_duration,
     d  |-> r.transition_duration]

\* -t of the clip of image i (0-based) in a slideshow of several images
SlideClipDuration(i, r) ==
    IF i = 0 THEN r.duration_per_image
    ELSE IF i = r.n - 1 THEN r.duration_per_image
    ELSE r.duration_per_image - r.transition_duration

\* drawtext overlays of the only clip of a one-image slideshow
SingleOverlays(r) ==
    (IF r.text_content # <<>> THEN <<Raw(r.text_content)>> ELSE <<>>)
    \o (IF r.second_text_content # <<>> THEN <<Raw(r.second_text_content)>> ELSE <<>>)

\* drawtext overlays of clip i: first text on the first clip, second on the last
SlideOverlays(i, r) ==
    (IF i = 0 /\ r.text_content # <<>> THEN <<Raw(r.text_content)>> ELSE <<>>)
    \o (IF i = r.n - 1 /\ r.second_text_content # <<>>
        THEN <<Raw(r.second_text_content)>> ELSE <<>>)

InitSlideshow ==
    /\ sreq \in SlideRequests
    /\ spc = "init"
    /\ sidx = 0
    /\ scalls = <<>>
    /\ sout = Absent
    /\ sresult = "pending"
    /\ PipeIdle
    /\ EscIdle
    /\ FillIdle
    /\ SvcIdle

SlideLog(op, i, args, o) == scalls' = Append(scalls, Invocation(op, i, args, o))

SlideReturn(res) ==
    /\ spc' = "returned"
    /\ sresult' = res

\* entry: every input image must exist
SlideCall ==
    /\ spc = "init"
    /\ IF ~sreq.images_exist
       THEN SlideReturn("failure")
       ELSE /\ spc' = IF sreq.n = 1 THEN "single" ELSE "clip"
            /\ UNCHANGED sresult
    /\ UNCHANGED <<sreq, sidx, scalls, sout, pipeVars, escVars, fillVars, svcVars>>

\* one image: a single invocation writes the output
SlideSingleDone ==
    /\ spc = "single"
    /\ \E o \in Outcomes, out \in SlideFileStates :
         /\ SlideLog("single", 0,
                     [t |-> sreq.duration_per_image + sreq.transition_duration,
                      overlays |-> SingleOverlays(sreq)], o)
         /\ sout' = out
         /\ IF InvocationFailed(o) \/ ~SlideFileOk(out)
            THEN SlideReturn("failure")
            ELSE SlideReturn("success")
    /\ UNCHANGED <<sreq, sidx, pipeVars, escVars, fillVars, svcVars>>

\* several images: clip i
SlideClipDone ==
    /\ spc = "clip"
    /\ \E o \in Outcomes, tmp \in SlideFileStates :
         /\ SlideLog("clip", sidx,
                     [t |-> SlideClipDuration(sidx, sreq),
                      fade_out |-> SlideFadeOut(sreq),
                      overlays |-> SlideOverlays(sidx, sreq)], o)
         /\ IF InvocationFailed(o) \/ ~SlideFileOk(tmp)
            THEN /\ SlideReturn("failure")
                 /\ UNCHANGED sidx
            ELSE IF sidx < sreq.n - 1
            THEN /\ sidx' = sidx + 1
                 /\ UNCHANGED <<spc, sresult>>
            ELSE /\ spc' = "concat"
                 /\ UNCHANGED <<sidx, sresult>>
    /\ UNCHANGED <<sreq, sout, pipeVars, escVars, fillVars, svcVars>>

\* several images: stream-copy concatenation into the output
SlideConcatDone ==
    /\ spc = "concat"
    /\ \E o \in Outcomes, out \in SlideFileStates :
         /\ SlideLog("concat", 0, [inputs |-> sreq.n], o)
         /\ sout' = out
         /\ IF InvocationFailed(o) \/ ~SlideFileOk(out)
            THEN SlideReturn("failure")
            ELSE SlideReturn("success")
    /\ UNCHANGED <<sreq, sidx, pipeVars, escVars, fillVars, svcVars>>

NextSlideshow ==
    \/ SlideCall
    \/ SlideSingleDone
    \/ SlideClipDone
    \/ SlideConcatDone

SpecSlideshow == InitSlideshow /\ [][NextSlideshow]_vars

\* invocations that draw text
TextOps == {"original", "tease", "clip", "branding", "cta", "single"}

\* C9: every overlay text embedded in an engine argument, by the timeline
\* builders and by the slideshow composer alike, is the escape_ffmpeg_text image
\* of the text it was made from.
C9_OverlayTextEscaped ==
    /\ \A k \in DOMAIN calls :
         calls[k].op \in TextOps =>
            \A j \in DOMAIN calls[k].args.overlays :
               calls[k].args.overlays[j].arg
                  = escape_ffmpeg_text(calls[k].args.overlays[j].src)
    /\ \A k \in DOMAIN scalls :
         scalls[k].op \in TextOps =>
            \A j \in DOMAIN scalls[k].args.overlays :
               scalls[k].args.overlays[j].arg
                  = escape_ffmpeg_text(scalls[k].args.overlays[j].src)

----------------------------------------------------------------------------
(* The endpoints: generate_inspix_video, create_video, download_video and    *)
(* cleanup_video, for NumRequests requests whose handlers interleave at      *)
(* their awaits                                                              *)

Slots == 1..NumRequests

Ids == 1..MaxIds

Endpoints == {"inspix", "slideshow"}

\* image counts of a request: none, one, several, the most allowed, one too many
Counts == {0, 1, 2, MAX_IMAGES, MAX_IMAGES + 1}

ServiceRequests == [endpoint : Endpoints, n : Counts]

uuid4_any(used) == Ids

\* uuid.uuid4(): a value never returned before (the least unused one: which
\* fresh value is returned makes no difference to any path built from it)
uuid4(used) ==
    IF Ids \ used = {} THEN {}
    ELSE {CHOOSE i \in Ids \ used : \A j \in Ids \ used : i <= j}

NoResponse == [status |-> 0, detail |-> ""]

NoAssets == [logo |-> "absent", audio |-> "absent"]

\* result_{i:04d} / image_{i:04d}; for generate_inspix_video image 0 is the original
ImageName(i) == "image_" \o ToString(i)

UploadFile(id, name, r) == [id |-> id, name |-> name, by |-> r]

OutFile(prefix, id) == [prefix |-> prefix, id |-> id]

\* output_filename: inspix_{request_id}.mp4 or video_{request_id}.mp4
OutputPrefix(endpoint) == IF endpoint = "inspix" THEN "inspix" ELSE "video"

\* the file behind the download_url of slot r's response
Artifact(r) == OutFile(OutputPrefix(request[r].endpoint), request_id[r])

\* the file cleanup_video(video_id) looks for
CleanupTarget(video_id) == OutFile("video", video_id)

\* number of image downloads: the original and the results, or the images
ImagesToFetch(q) == IF q.endpoint = "inspix" THEN q.n + 1 ELSE q.n

keep_request_dir(id, ds) == ds

\* shutil.rmtree(request_dir, ignore_errors=True): directories
RmtreeRequestDir(id, ds) == ds \ {id}

\* shutil.rmtree(request_dir, ignore_errors=True): files
RmtreeRequestFiles(id, fs) == { f \in fs : f.id # id }

image_count_error_empty_only(n) ==
    IF n = 0 THEN "At least one image URL is required" ELSE ""

\* the two checks on len(result_image_urls) / len(image_urls); "" when both pass
ImageCountError(n) ==
    IF n = 0 THEN "At least one image URL is required"
    ELSE IF n > MAX_IMAGES THEN "Maximum images allowed"
    ELSE ""

\* the await after the image downloads
AfterImages(q, a) ==
    IF q.endpoint = "inspix" /\ a.logo = "wanted" THEN "logo"
    ELSE IF a.audio = "wanted" THEN "audio"
    ELSE IF a.audio = "upload" THEN "upload"
    ELSE "compose"

\* the await after the logo download
AfterLogo(a) == IF a.audio = "wanted" THEN "audio" ELSE "compose"

InitService ==
    /\ request \in [Slots -> ServiceRequests]
    /\ phase = [r \in Slots |-> "new"]
    /\ fetched = [r \in Slots |-> 0]
    /\ request_id = [r \in Slots |-> 0]
    /\ workspace_id = [r \in Slots |-> 0]
    /\ assets = [r \in Slots |-> NoAssets]
    /\ composed = [r \in Slots |-> FALSE]
    /\ response = [r \in Slots |-> NoResponse]
    /\ updirs = {}
    /\ upfiles = {}
    /\ outfiles = {}
    /\ issued = {}
    /\ access = {}
    /\ cleanups = {}
    /\ downloads = [r \in Slots |-> "none"]
    /\ muxes = [r \in Slots |-> <<>>]
    /\ PipeIdle
    /\ EscIdle
    /\ SlideIdle
    /\ FillIdle

Touch(r, root, id) == [by |-> r, root |-> root, id |-> id]

reject_after_mkdir(r, status, detail) ==
    /\ phase' = [phase EXCEPT ![r] = "done"]
    /\ response' = [response EXCEPT ![r] = [status |-> status, detail |-> detail]]
    /\ \E id \in uuid4(issued) :
         /\ request_id' = [request_id EXCEPT ![r] = id]
         /\ issued' = issued \cup {id}
         /\ updirs' = updirs \cup {id}
         /\ access' = access \cup {Touch(r, "uploads", id)}
    /\ UNCHANGED assets

\* raise HTTPException before request_dir exists
Reject(r, status, detail) ==
    /\ phase' = [phase EXCEPT ![r] = "done"]
    /\ response' = [response EXCEPT ![r] = [status |-> status, detail |-> detail]]
    /\ UNCHANGED <<request_id, assets, updirs, issued, access>>

\* detail of the field checks that follow the count checks ("" when they pass)
FieldError(endpoint, fields) ==
    IF fields = "bad_url" THEN "Invalid URL format"
    ELSE IF endpoint = "inspix" /\ fields = "style_mismatch"
         THEN "style_names count must match result_image_urls count"
    ELSE IF endpoint = "slideshow" /\ fields = "both_audio"
         THEN "Provide either audio file or audio URL, not both"
    ELSE ""

\* `except HTTPException:` / `except Exception:` -- remove request_dir, answer
Fail(r, status, detail, fs) ==
    /\ phase' = [phase EXCEPT ![r] = "done"]
    /\ response' = [response EXCEPT ![r] = [status |-> status, detail |-> detail]]
    /\ updirs' = RmtreeRequestDir(request_id[r], updirs)
    /\ upfiles' = RmtreeRequestFiles(request_id[r], fs)

\* the handler up to its first await: check_ffmpeg, validation, request_dir
Accept(r) ==
    /\ phase[r] = "new"
    /\ \E ffmpeg_ok \in BOOLEAN, fields \in {"ok", "no_original", "bad_url", "style_mismatch", "both_audio"} :
         LET q == request[r] IN
         IF ~ffmpeg_ok
         THEN Reject(r, 503, "FFmpeg not available")
         ELSE IF q.endpoint = "inspix" /\ fields = "no_original"
         THEN Reject(r, 400, "original_image_url is required")
         ELSE IF ImageCountError(q.n) # ""
         THEN Reject(r, 400, ImageCountError(q.n))
         ELSE IF FieldError(q.endpoint, fields) # ""
         THEN Reject(r, 400, FieldError(q.endpoint, fields))
         ELSE \E id \in uuid4(issued),
                 logo \in IF q.endpoint = "inspix" THEN {"absent", "wanted"}
                                                   ELSE {"absent"},
                 audio \in IF q.endpoint = "inspix" THEN {"absent", "wanted"}
                                                    ELSE {"absent", "wanted", "upload"} :
                /\ request_id' = [request_id EXCEPT ![r] = id]
                /\ issued' = issued \cup {id}
                /\ updirs' = updirs \cup {id}
                /\ access' = access \cup {Touch(r, "uploads", id)}
                /\ assets' = [assets EXCEPT ![r] = [logo |-> logo, audio |-> audio]]
                /\ phase' = [phase EXCEPT ![r] = "images"]
                /\ UNCHANGED response
    /\ UNCHANGED <<request, fetched, workspace_id, composed, upfiles, outfiles,
                   cleanups, downloads, muxes,
                   pipeVars, escVars, slideVars, fillVars>>

\* one `await download_image_from_url(...)` of the original / result / image loop
FetchImage(r) ==
    /\ phase[r] = "images"
    /\ \E ok \in BOOLEAN :
         IF ok
         THEN /\ upfiles' = upfiles \cup
                    {UploadFile(request_id[r], ImageName(fetched[r]), r)}
              /\ fetched' = [fetched EXCEPT ![r] = @ + 1]
              /\ phase' = [phase EXCEPT ![r] =
                    IF fetched[r] + 1 < ImagesToFetch(request[r])
                    THEN "images" ELSE AfterImages(request[r], assets[r])]
              /\ UNCHANGED <<response, updirs>>
         ELSE /\ Fail(r, 400, "Failed to download image", upfiles)
              /\ UNCHANGED fetched
    /\ access' = access \cup {Touch(r, "uploads", request_id[r])}
    /\ UNCHANGED <<request, request_id, workspace_id, assets, composed, outfiles,
                   issued, cleanups, downloads, muxes,
                   pipeVars, escVars, slideVars, fillVars>>

\* generate_inspix_video: `await download_image_from_url(session, logo_url, ...)`
FetchLogo(r) ==
    /\ phase[r] = "logo"
    /\ \E ok \in BOOLEAN :
         /\ assets' = [assets EXCEPT ![r].logo = IF ok THEN "ok" ELSE "failed"]
         /\ upfiles' = IF ok
                       THEN upfiles \cup {UploadFile(request_id[r], "logo", r)}
                       ELSE upfiles
    /\ phase' = [phase EXCEPT ![r] = AfterLogo(assets[r])]
    /\ access' = access \cup {Touch(r, "uploads", request_id[r])}
    /\ UNCHANGED <<request, fetched, request_id, workspace_id, composed, response,
                   updirs, outfiles, issued, cleanups, downloads,
                   muxes,
                   pipeVars, escVars, slideVars, fillVars>>

abort_on_audio_failure(endpoint) == TRUE

\* whether a failed audio download raises: create_video does, generate_inspix_video
\* logs a warning and continues without music
AudioFailureAborts(endpoint) == endpoint = "slideshow"

\* `await download_audio_from_url(session, ..., ...)` of either endpoint
FetchAudio(r) ==
    /\ phase[r] = "audio"
    /\ \E ok \in BOOLEAN :
         IF ok
         THEN /\ assets' = [assets EXCEPT ![r].audio = "ok"]
              /\ upfiles' = upfiles \cup {UploadFile(request_id[r], "audio", r)}
              /\ phase' = [phase EXCEPT ![r] = "compose"]
              /\ UNCHANGED <<response, updirs>>
         ELSE /\ assets' = [assets EXCEPT ![r].audio = "failed"]
              /\ IF AudioFailureAborts(request[r].endpoint)
                 THEN Fail(r, 400, "Failed to download audio from URL", upfiles)
                 ELSE /\ phase' = [phase EXCEPT ![r] = "compose"]
                      /\ UNCHANGED <<response, updirs, upfiles>>
    /\ access' = access \cup {Touch(r, "uploads", request_id[r])}
    /\ UNCHANGED <<request, fetched, request_id, workspace_id, composed, outfiles,
                   issued, cleanups, downloads, muxes,
                   pipeVars, escVars, slideVars, fillVars>>

\* create_video: checks on the uploaded audio file and `await save_upload_file`
SaveUpload(r) ==
    /\ phase[r] = "upload"
    /\ \E o \in {"ok", "too_large", "bad_format", "save_failed"} :
         IF o = "ok"
         THEN /\ assets' = [assets EXCEPT ![r].audio = "ok"]
              /\ upfiles' = upfiles \cup {UploadFile(request_id[r], "audio", r)}
              /\ phase' = [phase EXCEPT ![r] = "compose"]
              /\ UNCHANGED <<response, updirs>>
         ELSE /\ assets' = [assets EXCEPT ![r].audio = "rejected"]
              /\ Fail(r,
                      CASE o = "too_large"   -> 413
                        [] o = "bad_format"  -> 400
                        [] o = "save_failed" -> 500,
                      CASE o = "too_large"   -> "Audio file is too large"
                        [] o = "bad_format"  -> "Audio file has unsupported format"
                        [] o = "save_failed" -> "Failed to save file",
                      upfiles)
    /\ access' = access \cup {Touch(r, "uploads", request_id[r])}
    /\ UNCHANGED <<request, fetched, request_id, workspace_id, composed, outfiles,
                   issued, cleanups, downloads, muxes,
                   pipeVars, escVars, slideVars, fillVars>>

\* every file slot r has downloaded is still in its request_dir
InputsPresent(r) ==
    /\ request_id[r] \in updirs
    /\ \A j \in 0..(fetched[r] - 1) :
         UploadFile(request_id[r], ImageName(j), r) \in upfiles

Succeed(r, detail) ==
    /\ phase' = [phase EXCEPT ![r] = "done"]
    /\ response' = [response EXCEPT ![r] = [status |-> 200, detail |-> detail]]
    /\ updirs' = RmtreeRequestDir(request_id[r], updirs)
    /\ upfiles' = RmtreeRequestFiles(request_id[r], upfiles)

\* generate_inspix_video from the call of create_inspix_video to the response;
\* nothing in it awaits, so it runs without interleaving
ComposeInspix(r) ==
    /\ phase[r] = "compose"
    /\ request[r].endpoint = "inspix"
    /\ \E ws \in uuid4(issued),
          res \in IF InputsPresent(r) THEN {"success", "failure", "exception"}
                                      ELSE {"failure", "exception"},
          leftover \in BOOLEAN :
         /\ workspace_id' = [workspace_id EXCEPT ![r] = ws]
         /\ issued' = issued \cup {ws}
         /\ access' = access \cup {Touch(r, "uploads", request_id[r]),
                                    Touch(r, "segments", ws),
                                    Touch(r, "outputs", request_id[r])}
         /\ CASE res = "success" ->
                   /\ outfiles' = outfiles \cup {Artifact(r)}
                   /\ Succeed(r, "Inspix video created successfully (low memory mode)")
              [] res = "failure" ->
                   /\ outfiles' = outfiles \cup (IF leftover THEN {Artifact(r)} ELSE {})
                   /\ Fail(r, 500, "Failed to generate video", upfiles)
              [] res = "exception" ->
                   /\ outfiles' = outfiles \cup (IF leftover THEN {Artifact(r)} ELSE {})
                   /\ Fail(r, 500, "Internal server error", upfiles)
    /\ composed' = [composed EXCEPT ![r] = TRUE]
    /\ UNCHANGED <<request, fetched, request_id, assets, cleanups, downloads,
                   muxes,
                   pipeVars, escVars, slideVars, fillVars>>

\* create_video from the call of create_video_from_images to the response
ComposeSlideshow(r) ==
    /\ phase[r] = "compose"
    /\ request[r].endpoint = "slideshow"
    /\ \E ws \in uuid4(issued),
          video \in IF InputsPresent(r) THEN {"success", "failure", "exception"}
                                        ELSE {"failure", "exception"},
          audio \in {"success", "failure"},
          leftover \in BOOLEAN :
         LET has_audio == assets[r].audio = "ok"
             final     == OutFile("video", request_id[r])
             temp      == OutFile("temp_video", request_id[r])
             target    == IF has_audio THEN temp ELSE final
         IN  /\ workspace_id' = [workspace_id EXCEPT ![r] = ws]
             /\ issued' = issued \cup {ws}
             /\ muxes' = [muxes EXCEPT ![r] =
                             IF video = "success" /\ has_audio
                             THEN Append(@, [video |-> video, audio |-> audio,
                                             source |-> assets[r].audio])
                             ELSE @]
             /\ access' = access \cup {Touch(r, "uploads", request_id[r]),
                                        Touch(r, "tmp", ws),
                                        Touch(r, "outputs", request_id[r])}
             /\ CASE video = "exception" ->
                       /\ outfiles' = outfiles \cup (IF leftover THEN {target} ELSE {})
                       /\ Fail(r, 500, "Internal server error", upfiles)
                  [] video = "failure" ->
                       /\ outfiles' = outfiles \cup (IF leftover THEN {target} ELSE {})
                       /\ Fail(r, 500, "Failed to create video from images", upfiles)
                  [] video = "success" /\ ~has_audio ->
                       /\ outfiles' = outfiles \cup {final}
                       /\ Succeed(r, "Video created successfully")
                  [] video = "success" /\ has_audio /\ audio = "failure" ->
                       /\ outfiles' = outfiles \cup {temp}
                                          \cup (IF leftover THEN {final} ELSE {})
                       /\ Fail(r, 500, "Failed to add audio to video", upfiles)
                  [] video = "success" /\ has_audio /\ audio = "success" ->
                       /\ outfiles' = outfiles \cup {final}
                       /\ Succeed(r, "Video created successfully")
    /\ composed' = [composed EXCEPT ![r] = TRUE]
    /\ UNCHANGED <<request, fetched, request_id, assets, cleanups, downloads,
                   pipeVars, escVars, slideVars, fillVars>>

\* GET /download/<the filename of slot r's download_url>
DownloadVideo(r) ==
    /\ phase[r] = "done"
    /\ response[r].status = 200
    /\ downloads' = [downloads EXCEPT ![r] =
                        IF Artifact(r) \in outfiles THEN "file" ELSE "404"]
    /\ UNCHANGED <<request, phase, fetched, request_id, workspace_id, assets,
                   composed, response, updirs, upfiles, outfiles, issued, access,
                   cleanups, muxes,
                   pipeVars, escVars, slideVars, fillVars>>

\* DELETE /cleanup/<the video_id of slot r's response>
CleanupVideo(r) ==
    /\ phase[r] = "done"
    /\ response[r].status = 200
    /\ request_id[r] \notin cleanups
    /\ cleanups' = cleanups \cup {request_id[r]}
    /\ outfiles' = outfiles \ {CleanupTarget(request_id[r])}
    /\ UNCHANGED <<request, phase, fetched, request_id, workspace_id, assets,
                   composed, response, updirs, upfiles, issued, access, downloads,
                   muxes,
                   pipeVars, escVars, slideVars, fillVars>>

NextService ==
    \E r \in Slots :
        \/ Accept(r)
        \/ FetchImage(r)
        \/ FetchLogo(r)
        \/ FetchAudio(r)
        \/ SaveUpload(r)
        \/ ComposeInspix(r)
        \/ ComposeSlideshow(r)
        \/ DownloadVideo(r)
        \/ CleanupVideo(r)

SpecService == InitService /\ [][NextService]_vars

InFlight(r) == phase[r] \notin {"new", "done"}

\* slot r owns directory <root>/<id>
Owns(r, root, id) ==
    IF root \in {"uploads", "outputs"} THEN request_id[r] = id
    ELSE workspace_id[r] = id

AssetFailed(r) == assets[r].logo = "failed" \/ assets[r].audio = "failed"

C14_RequestsIsolated ==
    /\ \A r1, r2 \in Slots :
         (r1 # r2 /\ request_id[r1] # 0 /\ request_id[r2] # 0)
            => request_id[r1] # request_id[r2]
    /\ \A r1, r2 \in Slots :
         (r1 # r2 /\ workspace_id[r1] # 0 /\ workspace_id[r2] # 0)
            => workspace_id[r1] # workspace_id[r2]
    /\ \A a \in access : \A r \in Slots \ {a.by} : ~Owns(r, a.root, a.id)
    /\ \A r \in Slots : InFlight(r) => InputsPresent(r)

C14_Witness ==
    /\ phase[1] = "done"
    /\ response[1].status = 200
    /\ phase[2] = "compose"
    /\ fetched[2] >= 2
    /\ Touch(1, "segments", workspace_id[1]) \in access
    /\ Touch(2, "uploads", request_id[2]) \in access

CountInRange(n) == n >= 1 /\ n <= MAX_IMAGES

\* C17 as stated: a request past validation has between 1 and MAX_IMAGES images,
\* and a request with none or too many is answered 400 with nothing downloaded
\* and no composer called.
C17_CountRejectedWith400 ==
    \A r \in Slots :
        /\ (InFlight(r) \/ composed[r]) => CountInRange(request[r].n)
        /\ (phase[r] = "done" /\ ~CountInRange(request[r].n)) =>
              /\ response[r].status = 400
              /\ request_id[r] = 0
              /\ fetched[r] = 0
              /\ ~composed[r]

\* C17 (amended): a request past validation has between 1 and MAX_IMAGES images;
\* a request with none or too many is rejected with nothing downloaded and no
\* composer called -- with the 400 error of the count check, or with 503 when
\* the ffmpeg availability check that precedes validation failed.
C17_CountRejectedBeforeWork ==
    \A r \in Slots :
        /\ (InFlight(r) \/ composed[r]) => CountInRange(request[r].n)
        /\ (phase[r] = "done" /\ ~CountInRange(request[r].n)) =>
              /\ \/ response[r] = [status |-> 503, detail |-> "FFmpeg not available"]
                 \/ /\ response[r].status = 400
                    /\ response[r].detail \in
                          { ImageCountError(request[r].n),
                            "original_image_url is required" }
              /\ request_id[r] = 0
              /\ fetched[r] = 0
              /\ ~composed[r]
              /\ \A a \in access : a.by # r

C17_Witness ==
    \E r \in Slots :
        /\ request[r].n = MAX_IMAGES + 1
        /\ phase[r] = "done"
        /\ response[r] = [status |-> 400, detail |-> "Maximum images allowed"]
        /\ \E r2 \in Slots : request[r2].n = MAX_IMAGES /\ composed[r2]

\* C19: when an endpoint has returned, with any outcome, the request's upload
\* directory and every file in it are gone.
C19_UploadDirGoneOnReturn ==
    \A r \in Slots :
        phase[r] = "done" =>
            /\ request_id[r] \notin updirs
            /\ \A f \in upfiles : f.id # request_id[r]

C19_Witness ==
    \E r \in Slots :
        /\ phase[r] = "done"
        /\ request_id[r] # 0
        /\ fetched[r] >= 2
        /\ composed[r]
        /\ response[r] = [status |-> 500, detail |-> "Internal server error"]

\* C20: after a successful request the artifact is on disk and served by every
\* download until cleanup is called with the request's video_id, and that call
\* deletes the artifact.
C20_ArtifactUntilCleanup ==
    \A r \in Slots :
        (phase[r] = "done" /\ response[r].status = 200) =>
            /\ request_id[r] \notin cleanups =>
                  /\ Artifact(r) \in outfiles
                  /\ downloads[r] \in {"none", "file"}
            /\ request_id[r] \in cleanups => Artifact(r) \notin outfiles

SlideCallsOf(op) == { k \in DOMAIN scalls : scalls[k].op = op }

\* durations of the clips encoded so far, in order
SlideClipDurations == [k \in SlideCallsOf("clip") |-> scalls[k].args.t]

\* C24: in a slideshow of several images the first and the last clip are encoded
\* with duration D and every middle clip with D - T; a single image is encoded
\* as one clip of duration D + T.
C24_SlideClipDurations ==
    /\ \A k \in SlideCallsOf("clip") :
         /\ sreq.n > 1
         /\ scalls[k].i = k - 1
         /\ (k = 1 \/ k = sreq.n) => scalls[k].args.t = sreq.duration_per_image
         /\ (k > 1 /\ k < sreq.n) =>
               scalls[k].args.t = sreq.duration_per_image - sreq.transition_duration
    /\ \A k \in SlideCallsOf("single") :
         /\ sreq.n = 1
         /\ k = 1
         /\ scalls[k].args.t = sreq.duration_per_image + sreq.transition_duration

C24_Witness ==
    /\ sreq.n = 4
    /\ sreq.duration_per_image = Seconds(2)
    /\ sreq.transition_duration = Seconds(1)
    /\ spc = "concat"
    /\ scalls[2].args.t = Seconds(1)
    /\ scalls[4].args.t = Seconds(2)

AllClipsEncoded == sreq.n > 1 /\ Cardinality(SlideCallsOf("clip")) = sreq.n

\* C25 as stated: for a slideshow of several images the expected total duration
\* D + (N-1)*(D-T) + T differs from the sum of the clip durations encoded.
C25_TotalDiffersFromClips ==
    AllClipsEncoded => SlideTotalDuration(sreq) # SumSeq(SlideClipDurations)

\* C25 (amended): for a slideshow of several images the expected total duration
\* D + (N-1)*(D-T) + T equals the sum of the clip durations encoded,
\* 2*D + (N-2)*(D-T).
C25_TotalEqualsClips ==
    AllClipsEncoded =>
        /\ SlideTotalDuration(sreq) = SumSeq(SlideClipDurations)
        /\ SumSeq(SlideClipDurations)
              = 2 * sreq.duration_per_image
                  + (sreq.n - 2) * (sreq.duration_per_image - sreq.transition_duration)

C25_Witness ==
    /\ AllClipsEncoded
    /\ sreq.n = 3
    /\ sreq.duration_per_image = Seconds(2)
    /\ sreq.transition_duration = Seconds(1)
    /\ SumSeq(SlideClipDurations) = Seconds(5)

\* C26: in a slideshow of several images every clip's fade-out window starts at
\* a non-negative time and ends no later than the clip's encoded duration.
C26_FadeOutInsideClip ==
    \A k \in SlideCallsOf("clip") :
        /\ scalls[k].args.fade_out.st >= 0
        /\ scalls[k].args.fade_out.st + scalls[k].args.fade_out.d <= scalls[k].args.t

\* C27: in create_video the audio mux is invoked at most once, only when an
\* audio source was supplied and only after create_video_from_images succeeded,
\* and once create_video has ended, with any outcome, temp_video_<id>.mp4 no
\* longer exists.
C27_MuxOnceAndTempGone ==
    \A r \in Slots :
        /\ Len(muxes[r]) <= 1
        /\ \A k \in DOMAIN muxes[r] :
             /\ request[r].endpoint = "slideshow"
             /\ muxes[r][k].source = "ok"
             /\ muxes[r][k].video = "success"
        /\ (request[r].endpoint = "slideshow" /\ phase[r] = "done" /\ request_id[r] # 0)
             => OutFile("temp_video", request_id[r]) \notin outfiles

\* the responses of the checks made before request_dir is created
ValidationRejections ==
    {[status |-> 503, detail |-> "FFmpeg not available"]}
      \cup [status : {400},
            detail : {"original_image_url is required",
                      "At least one image URL is required",
                      "Maximum images allowed",
                      "Invalid URL format",
                      "style_names count must match result_image_urls count",
                      "Provide either audio file or audio URL, not both"}]

\* C29: a request rejected during validation (engine unavailable, no images,
\* too many images, malformed URL, style-name count mismatch, both audio
\* sources) has no side effects: it owns no request id, upload directory,
\* uploaded file or workspace, has downloaded nothing, and neither its composer
\* nor its audio mux was called.
C29_RejectionHasNoSideEffects ==
    \A r \in Slots :
        response[r] \in ValidationRejections =>
            /\ phase[r] = "done"
            /\ request_id[r] = 0
            /\ workspace_id[r] = 0
            /\ fetched[r] = 0
            /\ assets[r] = NoAssets
            /\ ~composed[r]
            /\ muxes[r] = <<>>
            /\ \A a \in access : a.by # r
            /\ \A f \in upfiles : f.by # r

C29_Witness ==
    \E r, r2 \in Slots :
        /\ request[r].endpoint = "inspix"
        /\ response[r] = [status |-> 400,
                          detail |-> "style_names count must match result_image_urls count"]
        /\ request[r2].endpoint = "slideshow"
        /\ response[r2] = [status |-> 400,
                           detail |-> "Provide either audio file or audio URL, not both"]
        /\ updirs = {} /\ upfiles = {} /\ outfiles = {} /\ issued = {}

\* C30: when every engine invocation eventually returns, every run of
\* create_inspix_video eventually returns, with exactly one of success and
\* failure, which it then keeps; until then it moves through hook, original,
\* tease, showcase, branding, call-to-action, mux and verification one stage
\* forward at a time, or leaves to its return, and never goes back.
C30_TerminatesInForwardOrder ==
    /\ <>(result \in {"success", "failure"})
    /\ [](result \in {"success", "failure"} <=> pc \in {"returned", "responded"})
    /\ [][ /\ PcRank(pc') >= PcRank(pc)
           /\ \/ PcRank(pc') <= PcRank(pc) + 1
              \/ pc' = "returned" /\ result' = "failure"
           /\ result # "pending" => result' = result ]_vars

C30_Witness ==
    /\ pc = "returned"
    /\ result = "success"
    /\ Len(segments) = 6
    /\ { calls[k].op : k \in DOMAIN calls }
         = {"cell", "stack", "original", "tease", "clip", "join", "branding",
            "cta", "mux", "probe"}

\* C18: once create_video_from_images is working on a request, the per-image
\* duration is positive, the transition duration is positive and strictly less
\* than the per-image duration, and every clip duration handed to the engine is
\* positive.
C18_SlideDurationsPositive ==
    (spc # "init" /\ sreq.images_exist) =>
        /\ sreq.duration_per_image > 0
        /\ sreq.transition_duration > 0
        /\ sreq.transition_duration < sreq.duration_per_image
        /\ \A k \in DOMAIN scalls :
             scalls[k].op \in {"single", "clip"} => scalls[k].args.t > 0

====
